---- MODULE Spec2Model ----
(***************************************************************************)
(* Arabic-Morphology: the root index (AVL tree, backend/avl.py), the       *)
(* pattern index (chained hash table, backend/hashtable.py) and the        *)
(* morphological engine (backend/morphology.py).                           *)
(*                                                                         *)
(* Strings are sequences of Unicode code points, compared as Python        *)
(* compares str values (code point by code point, a proper prefix first).  *)
(***************************************************************************)
EXTENDS Integers, Sequences, FiniteSets, TLC

VARIABLES
    tree, size,             \* AVLTree: self.root, self.size
    call, ret, pre,         \* last AVLTree request, its result, the index before it
    table, count,           \* HashTable: self.table, self.count
    pcall, pret, ppre,      \* last HashTable request, its result, the table before it
    stored, deleted,        \* the set of templates the requests describe; those deleted so far
    mroot, mpatterns,       \* MorphologicalEngine arguments: root, all_patterns
    mderivs,                \* last result of generate_derivatives
    mcall, mret,            \* last MorphologicalEngine call and its result
    origin                  \* per stored root: its key and the keys update renamed it from

treeVars == <<tree, size, call, ret, pre>>
hashVars == <<table, count, pcall, pret, ppre, stored, deleted>>
morphVars == <<mroot, mpatterns, mderivs, mcall, mret>>
sysVars == <<origin>>
vars == <<treeVars, hashVars, morphVars, sysVars>>

----------------------------------------------------------------------------
(* Code points                                                             *)
ALIF == 1575
BA == 1576
TA == 1578
THA == 1579
DAL == 1583
DHAL == 1584
RA == 1585
ZAY == 1586
SIN == 1587
SAD == 1589
DAD == 1590
TAH == 1591
ZAH == 1592
AYN == 1593
FA == 1601
QAF == 1602
KAF == 1603
LAM == 1604
MIM == 1605
NUN == 1606
WAW == 1608
ALIF_MAQSURA == 1609
YA == 1610
FATHA == 1614
DAMMA == 1615
KASRA == 1616
SHADDA == 1617
DIGIT1 == 49
DIGIT2 == 50
DIGIT3 == 51
LATIN_F == 70
LATIN_A == 65
LATIN_L == 76

----------------------------------------------------------------------------
(* Python str comparison                                                   *)
Min(a, b) == IF a <= b THEN a ELSE b
Max(a, b) == IF a >= b THEN a ELSE b

\* a < b on str: the first differing code point decides, else the shorter
StrLess(a, b) ==
    LET n == Min(Len(a), Len(b))
        D == {i \in 1..n : a[i] # b[i]}
    IN  IF D = {} THEN Len(a) < Len(b)
        ELSE LET i == CHOOSE j \in D : \A k \in D : j <= k
             IN  a[i] < b[i]

StrGreater(a, b) == StrLess(b, a)

----------------------------------------------------------------------------
(* AVLNode / AVLTree                                                       *)
Nil == <<>>
None == "None"
NoWords == <<>>

AVLNode(root) ==
    [root |-> root, left |-> Nil, right |-> Nil, height |-> 1,
     derived_words |-> NoWords]

get_height(node) == IF node = Nil THEN 0 ELSE node.height

get_balance_factor(node) ==
    IF node = Nil THEN 0
    ELSE get_height(node.left) - get_height(node.right)

NewHeight(node) == 1 + Max(get_height(node.left), get_height(node.right))

\* mutant: the left child's right subtree is not handed over to node
rotate_right_keep_left(node) ==
    LET left_child == node.left
        n2 == [node EXCEPT !.height = NewHeight(node)]
        l1 == [left_child EXCEPT !.right = n2]
    IN  [l1 EXCEPT !.height = NewHeight(l1)]

rotate_right(node) ==
    LET left_child == node.left
        n1 == [node EXCEPT !.left = left_child.right]
        n2 == [n1 EXCEPT !.height = NewHeight(n1)]
        l1 == [left_child EXCEPT !.right = n2]
    IN  [l1 EXCEPT !.height = NewHeight(l1)]

rotate_left(node) ==
    LET right_child == node.right
        n1 == [node EXCEPT !.right = right_child.left]
        n2 == [n1 EXCEPT !.height = NewHeight(n1)]
        r1 == [right_child EXCEPT !.left = n2]
    IN  [r1 EXCEPT !.height = NewHeight(r1)]

\* mutant: the Left-Left case fires as soon as the node leans to the left
insert_rebalance_case_eager(node, root) ==
    LET balance_factor == get_balance_factor(node)
    IN  IF balance_factor > 0 /\ StrLess(root, node.left.root)
        THEN "Left-Left"
        ELSE IF balance_factor < -1 /\ StrGreater(root, node.right.root)
        THEN "Right-Right"
        ELSE IF balance_factor > 1 /\ StrGreater(root, node.left.root)
        THEN "Left-Right"
        ELSE IF balance_factor < -1 /\ StrLess(root, node.right.root)
        THEN "Right-Left"
        ELSE "none"

\* lines 114-135 of _insert_recursive: which of the four cases fires at node
insert_rebalance_case(node, root) ==
    LET balance_factor == get_balance_factor(node)
    IN  IF balance_factor > 1 /\ StrLess(root, node.left.root)
        THEN "Left-Left"
        ELSE IF balance_factor < -1 /\ StrGreater(root, node.right.root)
        THEN "Right-Right"
        ELSE IF balance_factor > 1 /\ StrGreater(root, node.left.root)
        THEN "Left-Right"
        ELSE IF balance_factor < -1 /\ StrLess(root, node.right.root)
        THEN "Right-Left"
        ELSE "none"

\* lines 111-135 of _insert_recursive: height update and the four cases;
\* rot is 1 when one of the cases fired at this node
insert_rebalance(node0, root) ==
    LET node == [node0 EXCEPT !.height = NewHeight(node0)]
        case == insert_rebalance_case(node, root)
    IN  IF case = "Left-Left"
        THEN [n |-> rotate_right(node), rot |-> 1]
        ELSE IF case = "Right-Right"
        THEN [n |-> rotate_left(node), rot |-> 1]
        ELSE IF case = "Left-Right"
        THEN [n |-> rotate_right([node EXCEPT !.left = rotate_left(node.left)]),
              rot |-> 1]
        ELSE IF case = "Right-Left"
        THEN [n |-> rotate_left([node EXCEPT !.right = rotate_right(node.right)]),
              rot |-> 1]
        ELSE [n |-> node, rot |-> 0]

\* mutant: an equal key is treated as an update that starts a fresh word map
RECURSIVE insert_recursive_overwrite(_, _, _)
insert_recursive_overwrite(node, root, sz) ==
    IF node = Nil THEN [n |-> AVLNode(root), sz |-> sz + 1, rot |-> 0]
    ELSE IF StrLess(root, node.root)
    THEN LET r == insert_recursive_overwrite(node.left, root, sz)
             b == insert_rebalance([node EXCEPT !.left = r.n], root)
         IN  [n |-> b.n, sz |-> r.sz, rot |-> r.rot + b.rot]
    ELSE IF StrGreater(root, node.root)
    THEN LET r == insert_recursive_overwrite(node.right, root, sz)
             b == insert_rebalance([node EXCEPT !.right = r.n], root)
         IN  [n |-> b.n, sz |-> r.sz, rot |-> r.rot + b.rot]
    ELSE [n |-> [node EXCEPT !.derived_words = NoWords], sz |-> sz,
          rot |-> 0]

\* returns the new subtree, the new value of self.size and the number of
\* nodes of the path at which a rotation case fired
RECURSIVE insert_recursive(_, _, _)
insert_recursive(node, root, sz) ==
    IF node = Nil THEN [n |-> AVLNode(root), sz |-> sz + 1, rot |-> 0]
    ELSE IF StrLess(root, node.root)
    THEN LET r == insert_recursive(node.left, root, sz)
             b == insert_rebalance([node EXCEPT !.left = r.n], root)
         IN  [n |-> b.n, sz |-> r.sz, rot |-> r.rot + b.rot]
    ELSE IF StrGreater(root, node.root)
    THEN LET r == insert_recursive(node.right, root, sz)
             b == insert_rebalance([node EXCEPT !.right = r.n], root)
         IN  [n |-> b.n, sz |-> r.sz, rot |-> r.rot + b.rot]
    ELSE [n |-> node, sz |-> sz, rot |-> 0]

\* AVLTree.insert as a function of (self.root, self.size)
insert(t, sz, root) ==
    LET r == insert_recursive(t, root, sz)
    IN  [tree |-> r.n, size |-> r.sz,
         ok |-> r.sz > sz,
         msg |-> IF r.sz > sz THEN "inserted successfully"
                 ELSE "already exists",
         rot |-> r.rot]

RECURSIVE search_recursive(_, _)
search_recursive(node, root) ==
    IF node = Nil THEN FALSE
    ELSE IF root = node.root THEN TRUE
    ELSE IF StrLess(root, node.root) THEN search_recursive(node.left, root)
    ELSE search_recursive(node.right, root)

search(t, root) == search_recursive(t, root)

RECURSIVE get_node(_, _)
get_node(node, root) ==
    IF node = Nil THEN Nil
    ELSE IF root = node.root THEN node
    ELSE IF StrLess(root, node.root) THEN get_node(node.left, root)
    ELSE get_node(node.right, root)

RECURSIVE in_order_traversal(_)
in_order_traversal(node) ==
    IF node = Nil THEN <<>>
    ELSE in_order_traversal(node.left) \o <<node.root>>
         \o in_order_traversal(node.right)

RECURSIVE get_min_node(_)
get_min_node(node) ==
    IF node.left # Nil THEN get_min_node(node.left) ELSE node

\* mutant: the height is recomputed but no rotation is made
delete_rebalance_no_rotation(node0) ==
    [node0 EXCEPT !.height = NewHeight(node0)]

\* lines 277-298 of _delete_recursive: height update and rebalancing
delete_rebalance(node0) ==
    LET node == [node0 EXCEPT !.height = NewHeight(node0)]
        balance == get_balance_factor(node)
    IN  IF balance > 1
        THEN IF get_balance_factor(node.left) >= 0
             THEN rotate_right(node)
             ELSE rotate_right([node EXCEPT !.left = rotate_left(node.left)])
        ELSE IF balance < -1
        THEN IF get_balance_factor(node.right) <= 0
             THEN rotate_left(node)
             ELSE rotate_left([node EXCEPT !.right = rotate_right(node.right)])
        ELSE node

\* mutant: the successor's key moves up but its word map does not
RECURSIVE delete_recursive_keep_words(_, _, _)
delete_recursive_keep_words(node, root, sz) ==
    IF node = Nil THEN [n |-> Nil, sz |-> sz]
    ELSE IF StrLess(root, node.root)
    THEN LET r == delete_recursive_keep_words(node.left, root, sz)
         IN  [n |-> delete_rebalance([node EXCEPT !.left = r.n]), sz |-> r.sz]
    ELSE IF StrGreater(root, node.root)
    THEN LET r == delete_recursive_keep_words(node.right, root, sz)
         IN  [n |-> delete_rebalance([node EXCEPT !.right = r.n]), sz |-> r.sz]
    ELSE IF node.left = Nil THEN [n |-> node.right, sz |-> sz - 1]
    ELSE IF node.right = Nil THEN [n |-> node.left, sz |-> sz - 1]
    ELSE LET min_larger_node == get_min_node(node.right)
             r == delete_recursive_keep_words(node.right, min_larger_node.root,
                                              sz - 1)
             moved == [node EXCEPT !.root = min_larger_node.root,
                                   !.right = r.n]
         IN  [n |-> delete_rebalance(moved), sz |-> r.sz + 1]

\* mutant: the count is not restored after the successor is removed
RECURSIVE delete_recursive_no_restore(_, _, _)
delete_recursive_no_restore(node, root, sz) ==
    IF node = Nil THEN [n |-> Nil, sz |-> sz]
    ELSE IF StrLess(root, node.root)
    THEN LET r == delete_recursive_no_restore(node.left, root, sz)
         IN  [n |-> delete_rebalance([node EXCEPT !.left = r.n]), sz |-> r.sz]
    ELSE IF StrGreater(root, node.root)
    THEN LET r == delete_recursive_no_restore(node.right, root, sz)
         IN  [n |-> delete_rebalance([node EXCEPT !.right = r.n]), sz |-> r.sz]
    ELSE IF node.left = Nil THEN [n |-> node.right, sz |-> sz - 1]
    ELSE IF node.right = Nil THEN [n |-> node.left, sz |-> sz - 1]
    ELSE LET min_larger_node == get_min_node(node.right)
             r == delete_recursive_no_restore(node.right, min_larger_node.root,
                                              sz - 1)
             moved == [node EXCEPT !.root = min_larger_node.root,
                                   !.derived_words = min_larger_node.derived_words,
                                   !.right = r.n]
         IN  [n |-> delete_rebalance(moved), sz |-> r.sz]

RECURSIVE delete_recursive(_, _, _)
delete_recursive(node, root, sz) ==
    IF node = Nil THEN [n |-> Nil, sz |-> sz]
    ELSE IF StrLess(root, node.root)
    THEN LET r == delete_recursive(node.left, root, sz)
         IN  [n |-> delete_rebalance([node EXCEPT !.left = r.n]), sz |-> r.sz]
    ELSE IF StrGreater(root, node.root)
    THEN LET r == delete_recursive(node.right, root, sz)
         IN  [n |-> delete_rebalance([node EXCEPT !.right = r.n]), sz |-> r.sz]
    ELSE IF node.left = Nil THEN [n |-> node.right, sz |-> sz - 1]
    ELSE IF node.right = Nil THEN [n |-> node.left, sz |-> sz - 1]
    ELSE LET min_larger_node == get_min_node(node.right)
             r == delete_recursive(node.right, min_larger_node.root, sz - 1)
             moved == [node EXCEPT !.root = min_larger_node.root,
                                   !.derived_words = min_larger_node.derived_words,
                                   !.right = r.n]
         IN  [n |-> delete_rebalance(moved), sz |-> r.sz + 1]

\* AVLTree.delete as a function of (self.root, self.size)
delete(t, sz, root) ==
    IF ~search(t, root)
    THEN [tree |-> t, size |-> sz, ok |-> FALSE, msg |-> "not found"]
    ELSE LET r == delete_recursive(t, root, sz)
         IN  [tree |-> r.n, size |-> r.sz,
              ok |-> r.sz < sz,
              msg |-> IF r.sz < sz THEN "deleted successfully"
                      ELSE "Failed to delete"]

\* the node found by get_node(root) with its derived_words replaced
RECURSIVE set_derived_words(_, _, _)
set_derived_words(node, root, words) ==
    IF node = Nil THEN Nil
    ELSE IF root = node.root THEN [node EXCEPT !.derived_words = words]
    ELSE IF StrLess(root, node.root)
    THEN [node EXCEPT !.left = set_derived_words(node.left, root, words)]
    ELSE [node EXCEPT !.right = set_derived_words(node.right, root, words)]

\* mutant: the saved word map is not attached to the new node
update_no_restore(t, sz, old_root, new_root) ==
    IF Len(new_root) # 3
    THEN [tree |-> t, size |-> sz, ok |-> FALSE,
          msg |-> "New root must be exactly 3 characters"]
    ELSE IF ~search(t, old_root)
    THEN [tree |-> t, size |-> sz, ok |-> FALSE, msg |-> "not found"]
    ELSE IF search(t, new_root) /\ old_root # new_root
    THEN [tree |-> t, size |-> sz, ok |-> FALSE, msg |-> "already exists"]
    ELSE IF old_root = new_root
    THEN [tree |-> t, size |-> sz, ok |-> FALSE,
          msg |-> "New root is the same as old root"]
    ELSE LET d == delete(t, sz, old_root)
         IN  IF d.ok
             THEN LET i == insert(d.tree, d.size, new_root)
                  IN  [tree |-> i.tree, size |-> i.size, ok |-> TRUE,
                       msg |-> "Root updated"]
             ELSE [tree |-> d.tree, size |-> d.size, ok |-> FALSE,
                   msg |-> "Failed to update root"]

\* mutant: the comparison of old with new is missing
update_allow_same(t, sz, old_root, new_root) ==
    IF Len(new_root) # 3
    THEN [tree |-> t, size |-> sz, ok |-> FALSE,
          msg |-> "New root must be exactly 3 characters"]
    ELSE IF ~search(t, old_root)
    THEN [tree |-> t, size |-> sz, ok |-> FALSE, msg |-> "not found"]
    ELSE IF search(t, new_root) /\ old_root # new_root
    THEN [tree |-> t, size |-> sz, ok |-> FALSE, msg |-> "already exists"]
    ELSE LET old_node == get_node(t, old_root)
             derived_words_backup ==
                 IF old_node # Nil THEN old_node.derived_words ELSE NoWords
             d == delete(t, sz, old_root)
         IN  IF d.ok
             THEN LET i == insert(d.tree, d.size, new_root)
                      new_node == get_node(i.tree, new_root)
                  IN  [tree |-> IF new_node # Nil
                                THEN set_derived_words(i.tree, new_root,
                                                       derived_words_backup)
                                ELSE i.tree,
                       size |-> i.size, ok |-> TRUE, msg |-> "Root updated"]
             ELSE [tree |-> d.tree, size |-> d.size, ok |-> FALSE,
                   msg |-> "Failed to update root"]

\* AVLTree.update as a function of (self.root, self.size)
update(t, sz, old_root, new_root) ==
    IF Len(new_root) # 3
    THEN [tree |-> t, size |-> sz, ok |-> FALSE,
          msg |-> "New root must be exactly 3 characters"]
    ELSE IF ~search(t, old_root)
    THEN [tree |-> t, size |-> sz, ok |-> FALSE, msg |-> "not found"]
    ELSE IF search(t, new_root) /\ old_root # new_root
    THEN [tree |-> t, size |-> sz, ok |-> FALSE, msg |-> "already exists"]
    ELSE IF old_root = new_root
    THEN [tree |-> t, size |-> sz, ok |-> FALSE,
          msg |-> "New root is the same as old root"]
    ELSE LET old_node == get_node(t, old_root)
             derived_words_backup ==
                 IF old_node # Nil THEN old_node.derived_words ELSE NoWords
             d == delete(t, sz, old_root)
         IN  IF d.ok
             THEN LET i == insert(d.tree, d.size, new_root)
                      new_node == get_node(i.tree, new_root)
                  IN  [tree |-> IF new_node # Nil
                                THEN set_derived_words(i.tree, new_root,
                                                       derived_words_backup)
                                ELSE i.tree,
                       size |-> i.size, ok |-> TRUE, msg |-> "Root updated"]
             ELSE [tree |-> d.tree, size |-> d.size, ok |-> FALSE,
                   msg |-> "Failed to update root"]

\* mutant: a word recorded before takes the template of the new request
add_derived_word_retemplate(words, word, template) ==
    IF word \in DOMAIN words
    THEN [words EXCEPT ![word] = [template |-> template,
                                  frequency |-> @.frequency + 1]]
    ELSE [w \in DOMAIN words \cup {word} |->
            IF w = word THEN [template |-> template, frequency |-> 1]
            ELSE words[w]]

\* AVLNode.add_derived_word on the word map of one node
add_derived_word(words, word, template) ==
    IF word \in DOMAIN words
    THEN [words EXCEPT ![word].frequency = @ + 1]
    ELSE [w \in DOMAIN words \cup {word} |->
            IF w = word THEN [template |-> template, frequency |-> 1]
            ELSE words[w]]

\* AVLTree.add_validated_word
add_validated_word(t, sz, root, word, template) ==
    LET node == get_node(t, root)
    IN  IF node = Nil
        THEN [tree |-> t, size |-> sz, ok |-> FALSE,
              msg |-> "not found in the tree"]
        ELSE [tree |-> set_derived_words(t, root,
                          add_derived_word(node.derived_words, word, template)),
              size |-> sz, ok |-> TRUE, msg |-> "Word added"]

\* AVLTree.get_derived_words: the map of a root, None when the root is absent
get_derived_words(t, root) ==
    LET node == get_node(t, root)
    IN  IF node = Nil THEN None ELSE node.derived_words

----------------------------------------------------------------------------
(* HashEntry / HashTable.  A bucket is its chain, head first.              *)
TableSize == 101
PRIME == 31
MOD == 1000000007

\* (a * k) % MOD by repeated addition, so that no intermediate value leaves
\* the 32-bit range; Python computes the same value on unbounded integers
RECURSIVE MulMod(_, _)
MulMod(a, k) == IF k = 0 THEN 0 ELSE (a + MulMod(a, k - 1)) % MOD

RECURSIVE rolling_hash(_, _, _)
rolling_hash(hash_value, template, i) ==
    IF i > Len(template) THEN hash_value
    ELSE rolling_hash((MulMod(hash_value, PRIME) + template[i]) % MOD,
                      template, i + 1)

polynomial_hash(template) == rolling_hash(0, template, 1) % TableSize

compute_full_hash(template) == polynomial_hash(template)

HashEntry(template, hash_value) ==
    [template |-> template, hash_value |-> hash_value]

EmptyTable == [i \in 0..(TableSize - 1) |-> <<>>]

ChainHas(chain, template) ==
    \E i \in 1..Len(chain) : chain[i].template = template

exists(tbl, template) ==
    ChainHas(tbl[polynomial_hash(template)], template)

get(tbl, template) == exists(tbl, template)

put(tbl, cnt, template) ==
    IF exists(tbl, template)
    THEN [table |-> tbl, count |-> cnt, ok |-> FALSE,
          msg |-> "already exists"]
    ELSE LET hash_index == polynomial_hash(template)
             hash_value == compute_full_hash(template)
             new_entry == HashEntry(template, hash_value)
         IN  [table |-> [tbl EXCEPT ![hash_index] = <<new_entry>> \o @],
              count |-> cnt + 1, ok |-> TRUE,
              msg |-> "inserted successfully"]

\* mutant: the head of the chain is unlinked, whichever entry matched
Unlink_head(chain, template) == Tail(chain)

\* the chain without its first entry for template
RECURSIVE Unlink(_, _)
Unlink(chain, template) ==
    IF chain = <<>> THEN <<>>
    ELSE IF Head(chain).template = template THEN Tail(chain)
    ELSE <<Head(chain)>> \o Unlink(Tail(chain), template)

hash_delete(tbl, cnt, template) ==
    LET hash_index == polynomial_hash(template)
    IN  IF ChainHas(tbl[hash_index], template)
        THEN [table |-> [tbl EXCEPT ![hash_index] = Unlink(@, template)],
              count |-> cnt - 1, ok |-> TRUE,
              msg |-> "deleted successfully"]
        ELSE [table |-> tbl, count |-> cnt, ok |-> FALSE,
              msg |-> "not found"]

\* mutant: a present new template is refused even when it is the old one
hash_update_refuse_same(tbl, cnt, old_template, new_template) ==
    IF ~exists(tbl, old_template)
    THEN [table |-> tbl, count |-> cnt, ok |-> FALSE, msg |-> "not found"]
    ELSE IF exists(tbl, new_template)
    THEN [table |-> tbl, count |-> cnt, ok |-> FALSE,
          msg |-> "already exists"]
    ELSE LET d == hash_delete(tbl, cnt, old_template)
         IN  IF d.ok
             THEN LET q == put(d.table, d.count, new_template)
                  IN  [table |-> q.table, count |-> q.count, ok |-> TRUE,
                       msg |-> "Pattern updated"]
             ELSE [table |-> d.table, count |-> d.count, ok |-> FALSE,
                   msg |-> "Failed to update pattern"]

hash_update(tbl, cnt, old_template, new_template) ==
    IF ~exists(tbl, old_template)
    THEN [table |-> tbl, count |-> cnt, ok |-> FALSE, msg |-> "not found"]
    ELSE IF old_template # new_template /\ exists(tbl, new_template)
    THEN [table |-> tbl, count |-> cnt, ok |-> FALSE,
          msg |-> "already exists"]
    ELSE LET d == hash_delete(tbl, cnt, old_template)
         IN  IF d.ok
             THEN LET q == put(d.table, d.count, new_template)
                  IN  [table |-> q.table, count |-> q.count, ok |-> TRUE,
                       msg |-> "Pattern updated"]
             ELSE [table |-> d.table, count |-> d.count, ok |-> FALSE,
                   msg |-> "Failed to update pattern"]

\* list.sort() on str values: ascending, equal elements kept
RECURSIVE SortedInsert(_, _)
SortedInsert(sorted, x) ==
    IF sorted = <<>> THEN <<x>>
    ELSE IF StrLess(x, Head(sorted)) THEN <<x>> \o sorted
    ELSE <<Head(sorted)>> \o SortedInsert(Tail(sorted), x)

RECURSIVE Sort(_)
Sort(s) ==
    IF s = <<>> THEN <<>>
    ELSE SortedInsert(Sort(SubSeq(s, 1, Len(s) - 1)), s[Len(s)])

\* the templates of buckets lo..hi in bucket order, each chain head first
\* (the patterns list is the concatenation of the chains; the range is
\* split in halves to keep the evaluation shallow)
RECURSIVE ChainsBetween(_, _, _)
ChainsBetween(tbl, lo, hi) ==
    IF lo > hi THEN <<>>
    ELSE IF lo = hi THEN [k \in 1..Len(tbl[lo]) |-> tbl[lo][k].template]
    ELSE ChainsBetween(tbl, lo, (lo + hi) \div 2)
         \o ChainsBetween(tbl, (lo + hi) \div 2 + 1, hi)

\* the templates of buckets i, i+1, ... in bucket order, each chain head first
ChainsFrom(tbl, i) == ChainsBetween(tbl, i, TableSize - 1)

\* mutant: the final sort is missing
get_all_patterns_unsorted(tbl) == ChainsFrom(tbl, 0)

get_all_patterns(tbl) == Sort(ChainsFrom(tbl, 0))

get_size(cnt) == cnt

----------------------------------------------------------------------------
(* MorphologicalEngine                                                     *)
WEAK_LETTERS == {WAW, YA}
EMPHATIC == {SAD, DAD, TAH, ZAH}
DENTAL == {DAL, DHAL, ZAY}
LABIAL == {BA, MIM}

\* str.replace(old, new) for a non-empty old: occurrences are taken from the
\* left and do not overlap
RECURSIVE Replace(_, _, _)
Replace(word, old, new) ==
    IF Len(word) < Len(old) THEN word
    ELSE IF SubSeq(word, 1, Len(old)) = old
    THEN new \o Replace(SubSeq(word, Len(old) + 1, Len(word)), old, new)
    ELSE <<Head(word)>> \o Replace(Tail(word), old, new)

\* mutant: the second radical is looked at before the first
is_weak_root_hollow_first(root) ==
    IF Len(root) # 3 THEN <<"sound", None>>
    ELSE IF root[2] \in WEAK_LETTERS THEN <<"hollow", 1>>
    ELSE IF root[1] \in WEAK_LETTERS THEN <<"assimilated", 0>>
    ELSE IF root[3] \in WEAK_LETTERS THEN <<"defective", 2>>
    ELSE IF root[2] = root[3] THEN <<"doubled", <<1, 2>>>>
    ELSE <<"sound", None>>

is_weak_root(root) ==
    IF Len(root) # 3 THEN <<"sound", None>>
    ELSE IF root[1] \in WEAK_LETTERS THEN <<"assimilated", 0>>
    ELSE IF root[2] \in WEAK_LETTERS THEN <<"hollow", 1>>
    ELSE IF root[3] \in WEAK_LETTERS THEN <<"defective", 2>>
    ELSE IF root[2] = root[3] THEN <<"doubled", <<1, 2>>>>
    ELSE <<"sound", None>>

\* mutant: the dental consonants spread emphasis like the emphatic ones
apply_form8_assimilation_spread(word, root) ==
    IF Len(root) # 3 THEN word
    ELSE LET c1 == root[1]
         IN  IF c1 \in EMPHATIC \cup DENTAL
             THEN Replace(word, <<c1, TA>>, <<c1, TAH>>)
             ELSE IF c1 = THA
             THEN Replace(word, <<THA, TA>>, <<THA, SHADDA>>)
             ELSE word

apply_form8_assimilation(word, root) ==
    IF Len(root) # 3 THEN word
    ELSE LET c1 == root[1]
         IN  IF c1 \in EMPHATIC THEN Replace(word, <<c1, TA>>, <<c1, TAH>>)
             ELSE IF c1 \in DENTAL
             THEN Replace(word, <<c1, TA>>, <<c1, SHADDA>>)
             ELSE IF c1 = THA
             THEN Replace(word, <<THA, TA>>, <<THA, SHADDA>>)
             ELSE word

apply_form7_assimilation(word, root) ==
    IF Len(root) # 3 THEN word
    ELSE LET c1 == root[1]
         IN  IF c1 \in LABIAL THEN Replace(word, <<NUN, c1>>, <<MIM, c1>>)
             ELSE word

apply_hollow_root_rules(word, root) ==
    IF Len(root) # 3 THEN word
    ELSE LET c1 == root[1]
             c2 == root[2]
         IN  IF c2 \in WEAK_LETTERS
             THEN IF c2 = WAW
                  THEN LET w1 == Replace(word, <<c1, FATHA, WAW>>,
                                         <<c1, FATHA, ALIF>>)
                           w2 == Replace(w1, <<c1, DAMMA, WAW>>,
                                         <<c1, DAMMA, WAW>>)
                       IN  Replace(w2, <<c1, KASRA, WAW>>, <<c1, KASRA, YA>>)
                  ELSE IF c2 = YA
                  THEN LET w1 == Replace(word, <<c1, FATHA, YA>>,
                                         <<c1, FATHA, ALIF>>)
                           w2 == Replace(w1, <<c1, KASRA, YA>>,
                                         <<c1, KASRA, YA>>)
                       IN  Replace(w2, <<c1, DAMMA, YA>>, <<c1, DAMMA, WAW>>)
                  ELSE word
             ELSE word

apply_defective_root_rules(word, root) ==
    IF Len(root) # 3 THEN word
    ELSE LET c3 == root[3]
         IN  IF c3 \in WEAK_LETTERS /\ word # <<>> /\ word[Len(word)] = c3
             THEN SubSeq(word, 1, Len(word) - 1) \o <<ALIF_MAQSURA>>
             ELSE word

\* mutant: the defective rule is tried for every root that is not hollow
phonological_steps_defective_any(word, root) ==
    LET weakness_type == is_weak_root(root)[1]
        w2 == IF weakness_type = "hollow"
              THEN apply_hollow_root_rules(word, root)
              ELSE apply_defective_root_rules(word, root)
        w3 == apply_form8_assimilation(w2, root)
        w4 == apply_form7_assimilation(w3, root)
    IN  [weak |-> w2, form8 |-> w3, form7 |-> w4,
         result |-> Replace(w4, <<SHADDA, SHADDA>>, <<SHADDA>>)]

\* mutant: step 5 is missing
phonological_steps_no_cleanup(word, root) ==
    LET weakness_type == is_weak_root(root)[1]
        w2 == IF weakness_type = "hollow"
              THEN apply_hollow_root_rules(word, root)
              ELSE IF weakness_type = "defective"
              THEN apply_defective_root_rules(word, root)
              ELSE word
        w3 == apply_form8_assimilation(w2, root)
        w4 == apply_form7_assimilation(w3, root)
    IN  [weak |-> w2, form8 |-> w3, form7 |-> w4, result |-> w4]

\* lines 168-188 of apply_phonological_rules: the value of word after each
\* of the steps 2 to 5, for a root of 3 characters
phonological_steps(word, root) ==
    LET weakness_type == is_weak_root(root)[1]
        w2 == IF weakness_type = "hollow"
              THEN apply_hollow_root_rules(word, root)
              ELSE IF weakness_type = "defective"
              THEN apply_defective_root_rules(word, root)
              ELSE word
        w3 == apply_form8_assimilation(w2, root)
        w4 == apply_form7_assimilation(w3, root)
    IN  [weak |-> w2, form8 |-> w3, form7 |-> w4,
         result |-> Replace(w4, <<SHADDA, SHADDA>>, <<SHADDA>>)]

apply_phonological_rules(word, root, pattern) ==
    IF Len(root) # 3 THEN word
    ELSE phonological_steps(word, root).result

\* lines 228-256 of apply_root_to_pattern: one character of the pattern
substitute_char(char, fa, ayn, lam) ==
    IF char = FA THEN fa
    ELSE IF char = AYN THEN ayn
    ELSE IF char = LAM THEN lam
    ELSE IF char = DIGIT1 THEN fa
    ELSE IF char = DIGIT2 THEN ayn
    ELSE IF char = DIGIT3 THEN lam
    ELSE IF char = LATIN_F THEN fa
    ELSE IF char = LATIN_A THEN ayn
    ELSE IF char = LATIN_L THEN lam
    ELSE char

\* mutant: the markers are replaced one after the other over the whole word
substitute_by_replace(root, pattern) ==
    LET w1 == Replace(pattern, <<FA>>, <<root[1]>>)
        w2 == Replace(w1, <<AYN>>, <<root[2]>>)
        w3 == Replace(w2, <<LAM>>, <<root[3]>>)
        w4 == Replace(w3, <<DIGIT1>>, <<root[1]>>)
        w5 == Replace(w4, <<DIGIT2>>, <<root[2]>>)
        w6 == Replace(w5, <<DIGIT3>>, <<root[3]>>)
        w7 == Replace(w6, <<LATIN_F>>, <<root[1]>>)
        w8 == Replace(w7, <<LATIN_A>>, <<root[2]>>)
    IN  Replace(w8, <<LATIN_L>>, <<root[3]>>)

\* lines 220-256 of apply_root_to_pattern: the substituted word
substitute(root, pattern) ==
    [i \in 1..Len(pattern) |->
        substitute_char(pattern[i], root[1], root[2], root[3])]

apply_root_to_pattern(root, pattern) ==
    IF Len(root) # 3 THEN <<>>
    ELSE apply_phonological_rules(substitute(root, pattern), root, pattern)

\* mutant: the scan gives up at the first template that does not match
RECURSIVE validate_from_first_only(_, _, _, _)
validate_from_first_only(word, root, all_patterns, i) ==
    IF i > Len(all_patterns)
    THEN [is_valid |-> FALSE, template_used |-> None]
    ELSE IF apply_root_to_pattern(root, all_patterns[i]) = word
    THEN [is_valid |-> TRUE, template_used |-> all_patterns[i]]
    ELSE [is_valid |-> FALSE, template_used |-> None]

\* mutant: the loop does not stop at a match, the last match is reported
RECURSIVE validate_from_last(_, _, _, _)
validate_from_last(word, root, all_patterns, i) ==
    IF i > Len(all_patterns)
    THEN [is_valid |-> FALSE, template_used |-> None]
    ELSE LET rest == validate_from_last(word, root, all_patterns, i + 1)
         IN  IF rest.is_valid THEN rest
             ELSE IF apply_root_to_pattern(root, all_patterns[i]) = word
             THEN [is_valid |-> TRUE, template_used |-> all_patterns[i]]
             ELSE rest

\* lines 280-286 of validate_word: the loop from the i-th template on
RECURSIVE validate_from(_, _, _, _)
validate_from(word, root, all_patterns, i) ==
    IF i > Len(all_patterns)
    THEN [is_valid |-> FALSE, template_used |-> None]
    ELSE IF apply_root_to_pattern(root, all_patterns[i]) = word
    THEN [is_valid |-> TRUE, template_used |-> all_patterns[i]]
    ELSE validate_from(word, root, all_patterns, i + 1)

\* mutant: the length of the root is not looked at
validate_word_any_length(word, root, all_patterns) ==
    validate_from(word, root, all_patterns, 1)

validate_word(word, root, all_patterns) ==
    IF Len(root) # 3 THEN [is_valid |-> FALSE, template_used |-> None]
    ELSE validate_from(word, root, all_patterns, 1)

\* lines 305-312 of generate_derivatives: the loop from the i-th template on
RECURSIVE derivatives_from(_, _, _)
derivatives_from(root, all_patterns, i) ==
    IF i > Len(all_patterns) THEN <<>>
    ELSE LET generated_word == apply_root_to_pattern(root, all_patterns[i])
         IN  (IF generated_word # <<>>
              THEN <<[template |-> all_patterns[i],
                      generated_word |-> generated_word]>>
              ELSE <<>>)
             \o derivatives_from(root, all_patterns, i + 1)

generate_derivatives(root, all_patterns) ==
    IF Len(root) # 3 THEN <<>>
    ELSE derivatives_from(root, all_patterns, 1)

----------------------------------------------------------------------------
(* Inputs of the root index                                                *)
KTB == <<KAF, TA, BA>>
ELM == <<AYN, LAM, MIM>>
DRS == <<DAL, RA, SIN>>
QWL == <<QAF, WAW, LAM>>
RMY == <<RA, MIM, YA>>
KT == <<KAF, TA>>
KTBT == <<KAF, TA, BA, TA>>

\* roots offered to the shape specification: five roots and two malformed ones
TreeKeys == {KTB, ELM, DRS, QWL, RMY, KT, KTBT}
\* roots offered to the derived-word specification
WordKeys == {KTB, ELM, DRS, KT}

MaxNodes == 6
MaxWordNodes == 4
MaxAdds == 2

----------------------------------------------------------------------------
(* Root index as a state machine.  call/ret record the last request and    *)
(* its result, pre the index as it was when the request arrived.           *)
NoStr == <<>>
Call(op, root, new_root, word, template) ==
    [op |-> op, root |-> root, new_root |-> new_root,
     word |-> word, template |-> template]

PatternCall(op, template, new_template) ==
    [op |-> op, template |-> template, new_template |-> new_template]

MorphCall(op, word, template, index) ==
    [op |-> op, word |-> word, template |-> template, index |-> index]

\* AVLTree() and HashTable() as constructed; no engine call made yet
Init ==
    /\ tree = Nil
    /\ size = 0
    /\ call = Call("init", NoStr, NoStr, NoStr, NoStr)
    /\ ret = [ok |-> TRUE, msg |-> ""]
    /\ pre = [tree |-> Nil, size |-> 0]
    /\ table = EmptyTable
    /\ count = 0
    /\ pcall = PatternCall("init", NoStr, NoStr)
    /\ pret = [ok |-> TRUE, msg |-> ""]
    /\ ppre = [table |-> EmptyTable, count |-> 0, stored |-> {}, deleted |-> {}]
    /\ stored = {}
    /\ deleted = {}
    /\ mroot = NoStr
    /\ mpatterns = <<>>
    /\ mderivs = <<>>
    /\ mcall = MorphCall("init", NoStr, NoStr, 0)
    /\ mret = None
    /\ origin = <<>>

Apply(c, r) ==
    /\ tree' = r.tree
    /\ size' = r.size
    /\ call' = c
    /\ ret' = [ok |-> r.ok, msg |-> r.msg]
    /\ pre' = [tree |-> tree, size |-> size]
    /\ UNCHANGED <<hashVars, morphVars, sysVars>>

Insert(root, cap) ==
    /\ size < cap
    /\ Apply(Call("insert", root, NoStr, NoStr, NoStr), insert(tree, size, root))

Delete(root) ==
    Apply(Call("delete", root, NoStr, NoStr, NoStr), delete(tree, size, root))

Update(old_root, new_root) ==
    Apply(Call("update", old_root, new_root, NoStr, NoStr),
          update(tree, size, old_root, new_root))

RECURSIVE TotalFrequency(_)
TotalFrequency(node) ==
    IF node = Nil THEN 0
    ELSE LET W == DOMAIN node.derived_words
             RECURSIVE Sum(_)
             Sum(S) == IF S = {} THEN 0
                       ELSE LET w == CHOOSE x \in S : TRUE
                            IN  node.derived_words[w].frequency + Sum(S \ {w})
         IN  Sum(W) + TotalFrequency(node.left) + TotalFrequency(node.right)

AddValidatedWord(root, word, template) ==
    /\ TotalFrequency(tree) < MaxAdds
    /\ Apply(Call("add_validated_word", root, NoStr, word, template),
             add_validated_word(tree, size, root, word, template))

\* the names defined in the body of class AVLTree
AVLTreeMethods ==
    {"__init__", "_get_height", "_get_balance_factor", "_rotate_right",
     "_rotate_left", "insert", "_insert_recursive", "search",
     "_search_recursive", "_get_node", "get_node", "add_validated_word",
     "get_derived_words", "in_order_traversal", "_in_order_recursive",
     "get_all_roots", "get_all_roots_with_words", "_in_order_with_words",
     "get_size", "get_height", "delete", "_delete_recursive",
     "_get_min_node", "update"}

\* the names set on the instance by AVLTree.__init__
AVLTreeFields == {"root", "size"}

\* avl_tree.<name>: attribute lookup on the AVLTree instance
has_attribute(name) == name \in AVLTreeMethods \cup AVLTreeFields

\* GET /api/roots/tree: the handler evaluates avl_tree.get_tree_structure(),
\* then get_height() and get_size(); a failed lookup raises AttributeError
\* out of the handler
get_roots_tree(t, sz) ==
    IF has_attribute("get_tree_structure")
    THEN [tree |-> t, size |-> sz, ok |-> TRUE, msg |-> "success"]
    ELSE [tree |-> t, size |-> sz, ok |-> FALSE, msg |-> "AttributeError"]

GetRootsTree ==
    Apply(Call("get_roots_tree", NoStr, NoStr, NoStr, NoStr),
          get_roots_tree(tree, size))

\* shape specification: insert, delete, update over TreeKeys
TreeInsert == \E r \in TreeKeys : Insert(r, MaxNodes)
TreeDelete == \E r \in TreeKeys : Delete(r)
TreeUpdate == \E o \in TreeKeys, n \in TreeKeys : Update(o, n)

TreeNext == TreeInsert \/ TreeDelete \/ TreeUpdate \/ GetRootsTree

Spec == Init /\ [][TreeNext]_vars

\* derived-word specification: the same requests over WordKeys, and
\* add_validated_word with words and templates from small sets
SampleWords == {<<KAF, ALIF, TA, BA>>, <<MIM, KAF, TA, BA>>}
SampleTemplates == {<<FA, ALIF, AYN, LAM>>, <<MIM, FA, AYN, LAM>>}

WordInsert == \E r \in WordKeys : Insert(r, MaxWordNodes)
WordDelete == \E r \in WordKeys : Delete(r)
WordUpdate == \E o \in WordKeys, n \in WordKeys : Update(o, n)
WordAdd ==
    \E r \in WordKeys, w \in SampleWords, t \in SampleTemplates :
        AddValidatedWord(r, w, t)

WordNext == WordInsert \/ WordDelete \/ WordUpdate \/ WordAdd

SpecWords == Init /\ [][WordNext]_vars

----------------------------------------------------------------------------
(* Pattern index as a state machine.  stored is the set of templates the   *)
(* requests made so far describe; deleted collects the templates whose     *)
(* delete succeeded.                                                       *)
FEL == <<FA, AYN, LAM>>
T2L == <<DIGIT2, LATIN_L>>
TLE == <<LATIN_L, AYN>>
TF == <<FA>>

\* FEL, T2L and TLE share bucket 10; TF lies in bucket 86
HashTemplates == {FEL, T2L, TLE, TF}

MaxStored == 3

HashApply(c, r, newStored) ==
    /\ table' = r.table
    /\ count' = r.count
    /\ pcall' = c
    /\ pret' = [ok |-> r.ok, msg |-> r.msg]
    /\ ppre' = [table |-> table, count |-> count,
                stored |-> stored, deleted |-> deleted]
    /\ stored' = newStored
    /\ deleted' = IF c.op = "delete" /\ r.ok
                  THEN deleted \cup {c.template} ELSE deleted
    /\ UNCHANGED <<treeVars, morphVars, sysVars>>

Put(template) ==
    /\ count < MaxStored
    /\ HashApply(PatternCall("put", template, NoStr),
                 put(table, count, template),
                 stored \cup {template})

HashDelete(template) ==
    HashApply(PatternCall("delete", template, NoStr),
              hash_delete(table, count, template),
              stored \ {template})

HashUpdate(old_template, new_template) ==
    HashApply(PatternCall("update", old_template, new_template),
              hash_update(table, count, old_template, new_template),
              IF old_template \in stored
                 /\ (new_template \notin stored \/ new_template = old_template)
              THEN (stored \ {old_template}) \cup {new_template}
              ELSE stored)

HashPut == \E t \in HashTemplates : Put(t)
HashDel == \E t \in HashTemplates : HashDelete(t)
HashUpd == \E o \in HashTemplates, n \in HashTemplates : HashUpdate(o, n)

HashNext == HashPut \/ HashDel \/ HashUpd

SpecHash == Init /\ [][HashNext]_vars

----------------------------------------------------------------------------
(* Morphological engine: the arguments are drawn at the start, each step   *)
(* makes one call on them.                                                 *)
SBR == <<SAD, BA, RA>>
ZRE == <<ZAY, RA, AYN>>
FAEIL == <<FA, FATHA, ALIF, AYN, KASRA, LAM>>
FAEAL == <<FA, FATHA, AYN, FATHA, LAM>>
IFTEL == <<ALIF, FA, TA, AYN, LAM>>
T123 == <<DIGIT1, DIGIT2, DIGIT3>>
EmptyStr == <<>>

MorphRoots == {KTB, ELM, QWL, RMY, SBR, ZRE, KT, KTBT, EmptyStr}
MorphPatterns == {FAEIL, FAEAL, IFTEL, FEL, T123, EmptyStr}
MorphWords == {<<KAF, ALIF, TA, BA>>, <<KAF, TA, BA>>, EmptyStr}

MaxListLen == 3

RECURSIVE ListsUpTo(_, _)
ListsUpTo(S, n) ==
    IF n = 0 THEN {<<>>}
    ELSE LET shorter == ListsUpTo(S, n - 1)
         IN  shorter \cup {Append(l, x) : l \in shorter, x \in S}

\* the indices as constructed; the engine's arguments drawn from the samples
InitMorph ==
    /\ tree = Nil
    /\ size = 0
    /\ call = Call("init", NoStr, NoStr, NoStr, NoStr)
    /\ ret = [ok |-> TRUE, msg |-> ""]
    /\ pre = [tree |-> Nil, size |-> 0]
    /\ table = EmptyTable
    /\ count = 0
    /\ pcall = PatternCall("init", NoStr, NoStr)
    /\ pret = [ok |-> TRUE, msg |-> ""]
    /\ ppre = [table |-> EmptyTable, count |-> 0, stored |-> {}, deleted |-> {}]
    /\ stored = {}
    /\ deleted = {}
    /\ mroot \in MorphRoots
    /\ mpatterns \in ListsUpTo(MorphPatterns, MaxListLen)
    /\ mderivs = <<>>
    /\ mcall = MorphCall("init", NoStr, NoStr, 0)
    /\ mret = None
    /\ origin = <<>>

MorphApply ==
    \E p \in MorphPatterns :
        /\ mcall' = MorphCall("apply_root_to_pattern", NoStr, p, 0)
        /\ mret' = apply_root_to_pattern(mroot, p)
        /\ UNCHANGED <<mroot, mpatterns, mderivs, treeVars, hashVars, sysVars>>

MorphGenerate ==
    /\ mcall' = MorphCall("generate_derivatives", NoStr, NoStr, 0)
    /\ mderivs' = generate_derivatives(mroot, mpatterns)
    /\ mret' = mderivs'
    /\ UNCHANGED <<mroot, mpatterns, treeVars, hashVars, sysVars>>

\* validate_word on a word given from outside
MorphValidate ==
    \E w \in MorphWords :
        /\ mcall' = MorphCall("validate_word", w, NoStr, 0)
        /\ mret' = validate_word(w, mroot, mpatterns)
        /\ UNCHANGED <<mroot, mpatterns, mderivs, treeVars, hashVars, sysVars>>

\* validate_word on the word of the i-th pair generate_derivatives returned
MorphRoundTrip ==
    \E i \in 1..Len(mderivs) :
        /\ mcall' = MorphCall("validate_derivative",
                              mderivs[i].generated_word,
                              mderivs[i].template, i)
        /\ mret' = validate_word(mderivs[i].generated_word, mroot, mpatterns)
        /\ UNCHANGED <<mroot, mpatterns, mderivs, treeVars, hashVars, sysVars>>

MorphNext == MorphApply \/ MorphGenerate \/ MorphValidate \/ MorphRoundTrip

SpecMorph == InitMorph /\ [][MorphNext]_vars

\* classification specification: is_weak_root on every string of up to
\* MaxRootLen letters over two weak and two sound letters
MaxRootLen == 4

RootLetters == {WAW, YA, KAF, DAL}

InitClassify ==
    /\ tree = Nil
    /\ size = 0
    /\ call = Call("init", NoStr, NoStr, NoStr, NoStr)
    /\ ret = [ok |-> TRUE, msg |-> ""]
    /\ pre = [tree |-> Nil, size |-> 0]
    /\ table = EmptyTable
    /\ count = 0
    /\ pcall = PatternCall("init", NoStr, NoStr)
    /\ pret = [ok |-> TRUE, msg |-> ""]
    /\ ppre = [table |-> EmptyTable, count |-> 0, stored |-> {}, deleted |-> {}]
    /\ stored = {}
    /\ deleted = {}
    /\ mroot \in ListsUpTo(RootLetters, MaxRootLen)
    /\ mpatterns = <<>>
    /\ mderivs = <<>>
    /\ mcall = MorphCall("init", NoStr, NoStr, 0)
    /\ mret = None
    /\ origin = <<>>

MorphClassify ==
    /\ mcall' = MorphCall("is_weak_root", NoStr, NoStr, 0)
    /\ mret' = is_weak_root(mroot)
    /\ UNCHANGED <<mroot, mpatterns, mderivs, treeVars, hashVars, sysVars>>

ClassifyNext == MorphClassify

SpecClassify == InitClassify /\ [][ClassifyNext]_vars

\* apply_root_to_pattern with the value of the word after the substitution
\* loop and after each step of apply_phonological_rules
derivation(root, pattern) ==
    IF Len(root) # 3
    THEN [substituted |-> <<>>, weak |-> <<>>, form8 |-> <<>>,
          form7 |-> <<>>, result |-> apply_root_to_pattern(root, pattern)]
    ELSE LET word == substitute(root, pattern)
             steps == phonological_steps(word, root)
         IN  [substituted |-> word, weak |-> steps.weak,
              form8 |-> steps.form8, form7 |-> steps.form7,
              result |-> apply_root_to_pattern(root, pattern)]

MorphDerive ==
    /\ mcall' = MorphCall("derive", NoStr, mpatterns[1], 0)
    /\ mret' = derivation(mroot, mpatterns[1])
    /\ UNCHANGED <<mroot, mpatterns, mderivs, treeVars, hashVars, sysVars>>

DeriveNext == MorphDerive

\* bound on the length of a generated template
MaxPatLen == 3

\* substitution specification: every template of up to MaxPatLen
\* characters over the nine markers and one vowel mark, on roots that hold
\* marker letters themselves
FAL == <<LATIN_F, LATIN_A, LATIN_L>>
LFE == <<LAM, FA, AYN>>
SubstRoots == {KTB, ELM, FEL, LFE, FAL}
SubstLetters ==
    {FA, AYN, LAM, DIGIT1, DIGIT2, DIGIT3, LATIN_F, LATIN_A, LATIN_L, FATHA}

InitSubst ==
    /\ tree = Nil
    /\ size = 0
    /\ call = Call("init", NoStr, NoStr, NoStr, NoStr)
    /\ ret = [ok |-> TRUE, msg |-> ""]
    /\ pre = [tree |-> Nil, size |-> 0]
    /\ table = EmptyTable
    /\ count = 0
    /\ pcall = PatternCall("init", NoStr, NoStr)
    /\ pret = [ok |-> TRUE, msg |-> ""]
    /\ ppre = [table |-> EmptyTable, count |-> 0, stored |-> {}, deleted |-> {}]
    /\ stored = {}
    /\ deleted = {}
    /\ mroot \in SubstRoots
    /\ mpatterns \in {<<p>> : p \in ListsUpTo(SubstLetters, MaxPatLen)}
    /\ mderivs = <<>>
    /\ mcall = MorphCall("init", NoStr, NoStr, 0)
    /\ mret = None
    /\ origin = <<>>

SpecSubst == InitSubst /\ [][DeriveNext]_vars

\* hollow specification: templates over two markers, the three short
\* vowels and ta, on a hollow root with waw and one with ya
BYE == <<BA, YA, AYN>>
HollowRoots == {QWL, BYE}
HollowLetters == {FA, AYN, FATHA, KASRA, DAMMA, TA}

InitHollow ==
    /\ tree = Nil
    /\ size = 0
    /\ call = Call("init", NoStr, NoStr, NoStr, NoStr)
    /\ ret = [ok |-> TRUE, msg |-> ""]
    /\ pre = [tree |-> Nil, size |-> 0]
    /\ table = EmptyTable
    /\ count = 0
    /\ pcall = PatternCall("init", NoStr, NoStr)
    /\ pret = [ok |-> TRUE, msg |-> ""]
    /\ ppre = [table |-> EmptyTable, count |-> 0, stored |-> {}, deleted |-> {}]
    /\ stored = {}
    /\ deleted = {}
    /\ mroot \in HollowRoots
    /\ mpatterns \in {<<p>> : p \in ListsUpTo(HollowLetters, MaxPatLen)}
    /\ mderivs = <<>>
    /\ mcall = MorphCall("init", NoStr, NoStr, 0)
    /\ mret = None
    /\ origin = <<>>

SpecHollow == InitHollow /\ [][DeriveNext]_vars

\* defective specification: templates over the three Arabic markers and
\* fatha, on roots whose last radical is weak, alone or after another weak
\* radical, and on a sound root
WQY == <<WAW, QAF, YA>>
QWY == <<QAF, WAW, YA>>
DEW == <<DAL, AYN, WAW>>
DefectiveRoots == {RMY, DEW, WQY, QWY, KTB}
DefectiveLetters == {FA, AYN, LAM, FATHA}

InitDefective ==
    /\ tree = Nil
    /\ size = 0
    /\ call = Call("init", NoStr, NoStr, NoStr, NoStr)
    /\ ret = [ok |-> TRUE, msg |-> ""]
    /\ pre = [tree |-> Nil, size |-> 0]
    /\ table = EmptyTable
    /\ count = 0
    /\ pcall = PatternCall("init", NoStr, NoStr)
    /\ pret = [ok |-> TRUE, msg |-> ""]
    /\ ppre = [table |-> EmptyTable, count |-> 0, stored |-> {}, deleted |-> {}]
    /\ stored = {}
    /\ deleted = {}
    /\ mroot \in DefectiveRoots
    /\ mpatterns \in {<<p>> : p \in ListsUpTo(DefectiveLetters, MaxPatLen)}
    /\ mderivs = <<>>
    /\ mcall = MorphCall("init", NoStr, NoStr, 0)
    /\ mret = None
    /\ origin = <<>>

SpecDefective == InitDefective /\ [][DeriveNext]_vars

\* assimilation specification: templates over two markers, ta, nun and the
\* gemination mark, on roots whose first consonant is emphatic, dental,
\* tha, labial or none of these
TLB == <<TAH, LAM, BA>>
THBT == <<THA, BA, TA>>
DTR == <<DAL, TA, RA>>
MNE == <<MIM, NUN, AYN>>
Form8Roots == {TLB, SBR, DRS, DTR, THBT, MNE, KTB}
Form8Letters == {FA, AYN, TA, NUN, SHADDA}

InitForm8 ==
    /\ tree = Nil
    /\ size = 0
    /\ call = Call("init", NoStr, NoStr, NoStr, NoStr)
    /\ ret = [ok |-> TRUE, msg |-> ""]
    /\ pre = [tree |-> Nil, size |-> 0]
    /\ table = EmptyTable
    /\ count = 0
    /\ pcall = PatternCall("init", NoStr, NoStr)
    /\ pret = [ok |-> TRUE, msg |-> ""]
    /\ ppre = [table |-> EmptyTable, count |-> 0, stored |-> {}, deleted |-> {}]
    /\ stored = {}
    /\ deleted = {}
    /\ mroot \in Form8Roots
    /\ mpatterns \in {<<p>> : p \in ListsUpTo(Form8Letters, MaxPatLen)}
    /\ mderivs = <<>>
    /\ mcall = MorphCall("init", NoStr, NoStr, 0)
    /\ mret = None
    /\ origin = <<>>

SpecForm8 == InitForm8 /\ [][DeriveNext]_vars

----------------------------------------------------------------------------
(* Request handlers of backend/main.py over both indices                   *)
\* (save_data only writes the two JSON files, which no handler reads back)

\* is_arabic_text: non-empty and every code point in one of three ranges
is_arabic_text(text) ==
    /\ text # <<>>
    /\ \A i \in 1..Len(text) :
          \/ (1536 <= text[i] /\ text[i] <= 1791)
          \/ (1872 <= text[i] /\ text[i] <= 1919)
          \/ (2208 <= text[i] /\ text[i] <= 2303)

\* the value a handler leaves behind: both indices, the success flag and
\* the payload of the response
Response(t, sz, tbl, cnt, ok, payload) ==
    [tree |-> t, size |-> sz, table |-> tbl, count |-> cnt,
     ok |-> ok, payload |-> payload]

\* the response of a root handler: success and total_roots come from the
\* (success, message) pair and the tree the AVLTree method leaves
RootResponse(r, tbl, cnt) ==
    Response(r.tree, r.size, tbl, cnt, r.ok, None)

\* the response of a pattern handler, from the HashTable method's result
PatternResponse(t, sz, r) ==
    Response(t, sz, r.table, r.count, r.ok, None)

add_root(t, sz, tbl, cnt, root) ==
    IF root = <<>> \/ Len(root) # 3 \/ ~is_arabic_text(root)
    THEN Response(t, sz, tbl, cnt, FALSE, None)
    ELSE RootResponse(insert(t, sz, root), tbl, cnt)

delete_root(t, sz, tbl, cnt, root) ==
    RootResponse(delete(t, sz, root), tbl, cnt)

update_root(t, sz, tbl, cnt, old_root, new_root) ==
    IF new_root = <<>> \/ Len(new_root) # 3 \/ ~is_arabic_text(new_root)
    THEN Response(t, sz, tbl, cnt, FALSE, None)
    ELSE RootResponse(update(t, sz, old_root, new_root), tbl, cnt)

add_pattern(t, sz, tbl, cnt, template) ==
    IF template = <<>> THEN Response(t, sz, tbl, cnt, FALSE, None)
    ELSE PatternResponse(t, sz, put(tbl, cnt, template))

delete_pattern(t, sz, tbl, cnt, template) ==
    PatternResponse(t, sz, hash_delete(tbl, cnt, template))

update_pattern(t, sz, tbl, cnt, old_template, new_template) ==
    IF new_template = <<>> THEN Response(t, sz, tbl, cnt, FALSE, None)
    ELSE PatternResponse(t, sz,
                         hash_update(tbl, cnt, old_template, new_template))

generate_word(t, sz, tbl, cnt, root, template) ==
    IF Len(root) # 3 \/ ~search(t, root) \/ ~exists(tbl, template)
    THEN Response(t, sz, tbl, cnt, FALSE, None)
    ELSE LET generated_word == apply_root_to_pattern(root, template)
         IN  IF generated_word # <<>>
             THEN Response(add_validated_word(t, sz, root, generated_word,
                                              template).tree,
                           sz, tbl, cnt, TRUE, generated_word)
             ELSE Response(t, sz, tbl, cnt, TRUE, generated_word)

\* lines 511-524 of generate_multiple: the loop from the i-th template on
RECURSIVE generate_multiple_from(_, _, _, _, _, _)
generate_multiple_from(t, sz, tbl, root, templates, i) ==
    IF i > Len(templates) THEN [tree |-> t, derivatives |-> <<>>]
    ELSE LET template == templates[i]
             generated_word == apply_root_to_pattern(root, template)
         IN  IF exists(tbl, template) /\ generated_word # <<>>
             THEN LET rest == generate_multiple_from(
                                add_validated_word(t, sz, root, generated_word,
                                                   template).tree,
                                sz, tbl, root, templates, i + 1)
                  IN  [tree |-> rest.tree,
                       derivatives |->
                           <<[template |-> template,
                              generated_word |-> generated_word]>>
                           \o rest.derivatives]
             ELSE generate_multiple_from(t, sz, tbl, root, templates, i + 1)

generate_multiple(t, sz, tbl, cnt, root, templates) ==
    IF Len(root) # 3 \/ templates = <<>> \/ ~search(t, root)
    THEN Response(t, sz, tbl, cnt, FALSE, <<>>)
    ELSE LET r == generate_multiple_from(t, sz, tbl, root, templates, 1)
         IN  Response(r.tree, sz, tbl, cnt, TRUE, r.derivatives)

\* lines 561-565 of generate_derivatives: the loop from the i-th pair on
RECURSIVE add_derivatives_from(_, _, _, _, _)
add_derivatives_from(t, sz, root, derivatives, i) ==
    IF i > Len(derivatives) THEN t
    ELSE LET template == derivatives[i].template
             word == derivatives[i].generated_word
         IN  IF template # <<>> /\ word # <<>>
             THEN add_derivatives_from(
                      add_validated_word(t, sz, root, word, template).tree,
                      sz, root, derivatives, i + 1)
             ELSE add_derivatives_from(t, sz, root, derivatives, i + 1)

main_generate_derivatives(t, sz, tbl, cnt, root) ==
    IF Len(root) # 3 \/ ~search(t, root)
    THEN Response(t, sz, tbl, cnt, FALSE, <<>>)
    ELSE LET all_patterns == get_all_patterns(tbl)
             derivatives == generate_derivatives(root, all_patterns)
         IN  Response(add_derivatives_from(t, sz, root, derivatives, 1),
                      sz, tbl, cnt, TRUE, derivatives)

\* mutant: the word is recorded under the first stored template
main_validate_word_first_template(t, sz, tbl, cnt, word, root) ==
    IF Len(root) # 3 \/ ~search(t, root)
    THEN Response(t, sz, tbl, cnt, FALSE,
                  [is_valid |-> FALSE, template_used |-> None])
    ELSE LET all_patterns == get_all_patterns(tbl)
             v == validate_word(word, root, all_patterns)
         IN  IF v.is_valid /\ v.template_used # <<>>
             THEN Response(add_validated_word(t, sz, root, word,
                                              all_patterns[1]).tree,
                           sz, tbl, cnt, TRUE, v)
             ELSE Response(t, sz, tbl, cnt, TRUE, v)

\* mutant: the templates are taken in the order of the buckets and chains
main_validate_word_table_order(t, sz, tbl, cnt, word, root) ==
    IF Len(root) # 3 \/ ~search(t, root)
    THEN Response(t, sz, tbl, cnt, FALSE,
                  [is_valid |-> FALSE, template_used |-> None])
    ELSE LET all_patterns == ChainsFrom(tbl, 0)
             v == validate_word(word, root, all_patterns)
         IN  IF v.is_valid /\ v.template_used # <<>>
             THEN Response(add_validated_word(t, sz, root, word,
                                              v.template_used).tree,
                           sz, tbl, cnt, TRUE, v)
             ELSE Response(t, sz, tbl, cnt, TRUE, v)

main_validate_word(t, sz, tbl, cnt, word, root) ==
    IF Len(root) # 3 \/ ~search(t, root)
    THEN Response(t, sz, tbl, cnt, FALSE,
                  [is_valid |-> FALSE, template_used |-> None])
    ELSE LET all_patterns == get_all_patterns(tbl)
             v == validate_word(word, root, all_patterns)
         IN  IF v.is_valid /\ v.template_used # <<>>
             THEN Response(add_validated_word(t, sz, root, word,
                                              v.template_used).tree,
                           sz, tbl, cnt, TRUE, v)
             ELSE Response(t, sz, tbl, cnt, TRUE, v)

\* the last request: its handler and, for validate, its arguments
Request(op, word, root) == [op |-> op, word |-> word, root |-> root]

\* the keys a stored root has had: update hands them on with the word map
NextOrigin(t, old_root, new_root) ==
    LET keys == in_order_traversal(t)
    IN  [r \in {keys[i] : i \in 1..Len(keys)} |->
            IF r \in DOMAIN origin THEN origin[r]
            ELSE IF r = new_root /\ old_root \in DOMAIN origin
            THEN origin[old_root] \cup {r}
            ELSE {r}]

MDD == <<MIM, DAL, DAL>>
SysRoots == {KTB, MDD}
SysTemplates == {T2L, TLE}
SysWords == {<<BA, TA>>, <<DAL, DAL>>}
MaxSysAdds == 2
MaxRequestLen == 2

\* one request: both indices take the handler's values; the request
\* histories of the single-index specifications stay as they are
Serve(c, r, old_root, new_root) ==
    \E response \in {r} :
        /\ TotalFrequency(response.tree) <= MaxSysAdds
        /\ tree' = response.tree
        /\ size' = response.size
        /\ table' = response.table
        /\ count' = response.count
        /\ call' = c
        /\ ret' = [ok |-> response.ok, msg |-> ""]
        /\ mret' = response.payload
        /\ origin' = NextOrigin(response.tree, old_root, new_root)
        /\ UNCHANGED <<pre, pcall, pret, ppre, stored, deleted,
                       mroot, mpatterns, mderivs, mcall>>

SysAddRoot ==
    \E root \in SysRoots :
        Serve(Request("add_root", NoStr, NoStr),
              add_root(tree, size, table, count, root), NoStr, NoStr)

SysDeleteRoot ==
    \E root \in SysRoots :
        Serve(Request("delete_root", NoStr, NoStr),
              delete_root(tree, size, table, count, root), NoStr, NoStr)

SysUpdateRoot ==
    \E old_root \in SysRoots, new_root \in SysRoots :
        Serve(Request("update_root", NoStr, NoStr),
              update_root(tree, size, table, count, old_root, new_root),
              old_root, new_root)

SysAddPattern ==
    \E template \in SysTemplates :
        Serve(Request("add_pattern", NoStr, NoStr),
              add_pattern(tree, size, table, count, template), NoStr, NoStr)

SysDeletePattern ==
    \E template \in SysTemplates :
        Serve(Request("delete_pattern", NoStr, NoStr),
              delete_pattern(tree, size, table, count, template),
              NoStr, NoStr)

SysUpdatePattern ==
    \E old_template \in SysTemplates, new_template \in SysTemplates :
        Serve(Request("update_pattern", NoStr, NoStr),
              update_pattern(tree, size, table, count,
                             old_template, new_template), NoStr, NoStr)

SysGenerate ==
    \E root \in SysRoots, template \in SysTemplates :
        Serve(Request("generate_word", NoStr, NoStr),
              generate_word(tree, size, table, count, root, template),
              NoStr, NoStr)

SysGenerateMultiple ==
    \E root \in SysRoots,
       templates \in ListsUpTo(SysTemplates, MaxRequestLen) :
        Serve(Request("generate_multiple", NoStr, NoStr),
              generate_multiple(tree, size, table, count, root, templates),
              NoStr, NoStr)

SysDerivatives ==
    \E root \in SysRoots :
        Serve(Request("generate_derivatives", NoStr, NoStr),
              main_generate_derivatives(tree, size, table, count, root),
              NoStr, NoStr)

SysValidate ==
    \E word \in SysWords, root \in SysRoots :
        Serve(Request("validate_word", word, root),
              main_validate_word(tree, size, table, count, word, root),
              NoStr, NoStr)

SysNext ==
    \/ SysAddRoot \/ SysDeleteRoot \/ SysUpdateRoot
    \/ SysAddPattern \/ SysDeletePattern \/ SysUpdatePattern
    \/ SysGenerate \/ SysGenerateMultiple \/ SysDerivatives \/ SysValidate

SpecSys == Init /\ [][SysNext]_vars

----------------------------------------------------------------------------
(* Properties of the root index                                            *)
Abs(x) == IF x < 0 THEN -x ELSE x

RECURSIVE IsAVL(_)
IsAVL(node) ==
    \/ node = Nil
    \/ /\ Abs(get_height(node.left) - get_height(node.right)) <= 1
       /\ node.height = 1 + Max(get_height(node.left), get_height(node.right))
       /\ IsAVL(node.left)
       /\ IsAVL(node.right)

\* C1: after any sequence of insert, delete and update every node has
\* |height(left) - height(right)| <= 1 and height = 1 + max(child heights),
\* an absent child counting as height 0.
C1_AVLInvariant == IsAVL(tree)

\* a delete below the root that made a rotation bring a new node to the root
C1_Witness ==
    /\ call.op = "delete" /\ ret.ok
    /\ size >= 4
    /\ call.root # pre.tree.root
    /\ tree.root # pre.tree.root

InSeq(s, x) == \E i \in 1..Len(s) : s[i] = x

\* C2: inOrder() is strictly increasing under code-point comparison, holds
\* no key twice, and search(r) is true exactly for the keys it lists.
C2_InOrderSorted ==
    LET s == in_order_traversal(tree)
    IN  /\ \A i \in 1..Len(s) : \A j \in 1..Len(s) :
              i < j => StrLess(s[i], s[j])
        /\ \A r \in TreeKeys : search(tree, r) <=> InSeq(s, r)

\* a full tree holding a root, a proper prefix of it and an extension of it
C2_Witness ==
    /\ size = MaxNodes
    /\ search(tree, KT) /\ search(tree, KTB) /\ search(tree, KTBT)
    /\ call.op = "update" /\ ret.ok

\* C6: after insert(r), search(r) is true; an insert(r) with r already
\* present returns (false, "... already exists") and leaves the count, the
\* tree shape and every derived-word map as they were.
C6_InsertThenSearch ==
    call.op = "insert" =>
        /\ search(tree, call.root)
        /\ search(pre.tree, call.root) =>
              /\ ret = [ok |-> FALSE, msg |-> "already exists"]
              /\ tree = pre.tree
              /\ size = pre.size

\* a repeated insert of a root that lies below the tree root and owns words
C6_Witness ==
    /\ call.op = "insert"
    /\ search(pre.tree, call.root)
    /\ call.root # pre.tree.root
    /\ get_derived_words(pre.tree, call.root) # NoWords

\* root r1 of t1 and root r2 of t2 are both absent, or both present with
\* equal derived-word maps
SameWords(t1, r1, t2, r2) ==
    /\ search(t1, r1) <=> search(t2, r2)
    /\ search(t1, r1) =>
          get_node(t1, r1).derived_words = get_node(t2, r2).derived_words

\* C7: after a successful update(old, new): old is absent, new is present,
\* new carries the map old had just before the call, every other root keeps
\* its own map, and size() is unchanged.
C7_UpdateCarriesWords ==
    (call.op = "update" /\ ret.ok) =>
        /\ ~search(tree, call.root)
        /\ search(tree, call.new_root)
        /\ SameWords(tree, call.new_root, pre.tree, call.root)
        /\ \A r \in WordKeys \ {call.root, call.new_root} :
              SameWords(tree, r, pre.tree, r)
        /\ size = pre.size

\* a rename of a root that owns words, next to another root owning other words
C7_Witness ==
    /\ call.op = "update" /\ ret.ok
    /\ get_derived_words(pre.tree, call.root) # NoWords
    /\ \E r \in WordKeys \ {call.root, call.new_root} :
          /\ search(pre.tree, r)
          /\ get_derived_words(pre.tree, r) # NoWords
          /\ get_derived_words(pre.tree, r)
                # get_derived_words(pre.tree, call.root)

\* C8: after a successful delete(r), r is absent and every other root,
\* the in-order successor that moves up included, is still present with the
\* derived-word map it had before the delete.
C8_DeleteKeepsOthers ==
    (call.op = "delete" /\ ret.ok) =>
        /\ ~search(tree, call.root)
        /\ \A r \in WordKeys \ {call.root} :
              /\ search(tree, r) <=> search(pre.tree, r)
              /\ SameWords(tree, r, pre.tree, r)

\* a delete of a node with two children whose successor owns words of its own
C8_Witness ==
    /\ call.op = "delete" /\ ret.ok
    /\ LET node == get_node(pre.tree, call.root)
       IN  /\ node.left # Nil
           /\ node.right # Nil
           /\ get_min_node(node.right).derived_words # NoWords
           /\ get_min_node(node.right).derived_words # node.derived_words

\* C9: update(old, new) fails and leaves keys, shape, heights, size and word
\* maps unchanged when new is not 3 characters long, old is absent, new is
\* present and differs from old, or old equals new.
C9_UpdateFailureCases ==
    ( /\ call.op = "update"
      /\ \/ Len(call.new_root) # 3
         \/ ~search(pre.tree, call.root)
         \/ search(pre.tree, call.new_root) /\ call.new_root # call.root
         \/ call.root = call.new_root )
    => /\ ~ret.ok
       /\ tree = pre.tree
       /\ size = pre.size

\* an update of a present 3-character root that owns words to itself
C9_Witness ==
    /\ call.op = "update"
    /\ call.root = call.new_root
    /\ Len(call.new_root) = 3
    /\ search(pre.tree, call.root)
    /\ get_derived_words(pre.tree, call.root) # NoWords
    /\ size >= 3

\* C10: insert(root) with a root that is not exactly 3 characters long
\* reports failure and leaves the index unchanged.
C10_InsertRejectsBadLength ==
    (call.op = "insert" /\ Len(call.root) # 3) =>
        /\ ~ret.ok
        /\ tree = pre.tree
        /\ size = pre.size

----------------------------------------------------------------------------
(* Properties of the pattern index                                         *)
SeqSet(s) == {s[i] : i \in 1..Len(s)}

\* C3: the pattern index behaves like the set of templates its requests
\* describe: exists/get, size(), and getAllPatterns() as the ascending
\* duplicate-free listing of that set; the result flags agree; a put of a
\* template whose delete succeeded earlier succeeds and the template is listed.
C3_BehavesLikeSet ==
    LET all == get_all_patterns(table)
    IN  /\ \A t \in HashTemplates :
              /\ exists(table, t) <=> t \in stored
              /\ get(table, t) <=> t \in stored
        /\ get_size(count) = Cardinality(stored)
        /\ SeqSet(all) = stored
        /\ \A i \in 1..Len(all) : \A j \in 1..Len(all) :
              i < j => StrLess(all[i], all[j])
        /\ pcall.op = "put" => (pret.ok <=> pcall.template \notin ppre.stored)
        /\ pcall.op = "delete" => (pret.ok <=> pcall.template \in ppre.stored)
        /\ pcall.op = "update" =>
              (pret.ok <=> /\ pcall.template \in ppre.stored
                           /\ \/ pcall.new_template \notin ppre.stored
                              \/ pcall.new_template = pcall.template)
        /\ ( /\ pcall.op = "put"
             /\ pcall.template \in ppre.deleted
             /\ pcall.template \notin ppre.stored )
           => pret.ok /\ InSeq(all, pcall.template)

\* a put of a template deleted before, into a bucket that holds another one,
\* in a table whose bucket order is not the sorted order
C3_Witness ==
    /\ pcall.op = "put" /\ pret.ok
    /\ pcall.template \in ppre.deleted
    /\ Len(table[polynomial_hash(pcall.template)]) >= 2
    /\ ChainsFrom(table, 0) # get_all_patterns(table)

----------------------------------------------------------------------------
(* Properties of the morphological engine                                  *)

\* C4: for a 3-character root, the word of each pair generateDerivatives
\* returns is accepted by validateWord on the same root and patterns, and
\* the reported template is the pair's template or one that stands earlier
\* in the sequence and generates the same word.
C4_RoundTrip ==
    (mcall.op = "validate_derivative" /\ Len(mroot) = 3) =>
        /\ mret.is_valid
        /\ \/ mret.template_used = mcall.template
           \/ \E k \in 1..Len(mpatterns) : \E j \in 1..(k - 1) :
                 /\ mpatterns[k] = mcall.template
                 /\ mpatterns[j] = mret.template_used
                 /\ apply_root_to_pattern(mroot, mpatterns[j]) = mcall.word

\* a round trip whose word is generated by an earlier template as well
C4_Witness ==
    /\ mcall.op = "validate_derivative"
    /\ Len(mroot) = 3
    /\ mret.is_valid
    /\ mret.template_used # mcall.template
    /\ mcall.index >= 2

\* C5: applyRootToPattern on root "ktb" and the template fa, fatha, alif,
\* ayn, kasra, lam returns the 4-character word kaf, alif, ta, ba; on root
\* "elm" and the same template it returns ayn, alif, lam, mim.
C5_ActiveParticiple ==
    (mcall.op = "apply_root_to_pattern" /\ mcall.template = FAEIL) =>
        /\ mroot = KTB => mret = <<KAF, ALIF, TA, BA>>
        /\ mroot = ELM => mret = <<AYN, ALIF, LAM, MIM>>

----------------------------------------------------------------------------
(* Derived words and the node count                                        *)
RECURSIVE FrequenciesPositive(_)
FrequenciesPositive(node) ==
    \/ node = Nil
    \/ /\ \A w \in DOMAIN node.derived_words :
             node.derived_words[w].frequency >= 1
       /\ FrequenciesPositive(node.left)
       /\ FrequenciesPositive(node.right)

\* C11: addDerivedWord(root, word, template) fails and changes nothing when
\* root is absent; records word with the template and frequency 1 when word
\* is new; raises the frequency of a recorded word by exactly 1 and leaves
\* its template and every other entry as they were.  Every stored frequency
\* is at least 1 in every state.
C11_AddDerivedWord ==
    /\ FrequenciesPositive(tree)
    /\ call.op = "add_validated_word" =>
          IF ~search(pre.tree, call.root)
          THEN ~ret.ok /\ tree = pre.tree /\ size = pre.size
          ELSE LET old == get_node(pre.tree, call.root).derived_words
                   new == get_node(tree, call.root).derived_words
               IN  /\ ret.ok
                   /\ size = pre.size
                   /\ in_order_traversal(tree) = in_order_traversal(pre.tree)
                   /\ \A r \in WordKeys \ {call.root} :
                         SameWords(tree, r, pre.tree, r)
                   /\ DOMAIN new = DOMAIN old \cup {call.word}
                   /\ \A w \in DOMAIN old \ {call.word} : new[w] = old[w]
                   /\ IF call.word \in DOMAIN old
                      THEN /\ new[call.word].frequency
                                = old[call.word].frequency + 1
                           /\ new[call.word].template
                                = old[call.word].template
                      ELSE new[call.word]
                             = [template |-> call.template, frequency |-> 1]

\* a word recorded under one template is added again under another one
C11_Witness ==
    /\ call.op = "add_validated_word" /\ ret.ok
    /\ LET old == get_node(pre.tree, call.root).derived_words
       IN  /\ call.word \in DOMAIN old
           /\ old[call.word].template # call.template

RECURSIVE NodeCount(_)
NodeCount(node) ==
    IF node = Nil THEN 0
    ELSE 1 + NodeCount(node.left) + NodeCount(node.right)

\* C12: in every state reached by insert, delete and update, size() is the
\* number of nodes of the tree and the length of inOrder(); a successful
\* delete lowers size() by exactly 1, also for a node with two children; a
\* failed insert or delete leaves size() as it was.
C12_SizeCountsNodes ==
    /\ size = NodeCount(tree)
    /\ size = Len(in_order_traversal(tree))
    /\ (call.op = "delete" /\ ret.ok) => size = pre.size - 1
    /\ (call.op \in {"insert", "delete"} /\ ~ret.ok) => size = pre.size

\* a key whose node has two children has just been deleted
C12_Witness ==
    /\ call.op = "delete" /\ ret.ok
    /\ LET node == get_node(pre.tree, call.root)
       IN  node.left # Nil /\ node.right # Nil
    /\ size = pre.size - 1

\* insertion below the leaves with heights recomputed and no rotation
RECURSIVE PlainInsert(_, _)
PlainInsert(node, root) ==
    IF node = Nil THEN AVLNode(root)
    ELSE IF StrLess(root, node.root)
    THEN LET n1 == [node EXCEPT !.left = PlainInsert(node.left, root)]
         IN  [n1 EXCEPT !.height = NewHeight(n1)]
    ELSE IF StrGreater(root, node.root)
    THEN LET n1 == [node EXCEPT !.right = PlainInsert(node.right, root)]
         IN  [n1 EXCEPT !.height = NewHeight(n1)]
    ELSE node

\* C18: a single insert into a reachable tree fires a rotation case (one
\* single or one double rotation) at no more than one node of the insertion
\* path; when none fires the nodes of the path only have their heights
\* recomputed.
C18_InsertRotatesOnce ==
    call.op = "insert" =>
        LET r == insert(pre.tree, pre.size, call.root)
        IN  /\ r.tree = tree
            /\ r.rot <= 1
            /\ r.rot = 0 => tree = PlainInsert(pre.tree, call.root)

\* an insert into a tree of height 3 or more rotated once, below the root
C18_Witness ==
    /\ call.op = "insert" /\ ret.ok
    /\ pre.tree # Nil /\ pre.tree.height >= 3
    /\ insert(pre.tree, pre.size, call.root).rot = 1
    /\ tree.root = pre.tree.root

\* C17: in every state of the index, empty or not, the tree-structure
\* enumeration called by the roots/tree request completes with a result
\* value and never with a fault.
C17_TreeStructureCompletes ==
    call.op = "get_roots_tree" => ret.ok /\ ret.msg # "AttributeError"

----------------------------------------------------------------------------
(* Chains of the pattern table                                             *)
\* C13: two distinct templates of the same bucket are both found once both
\* are put, in either order; deleting one of them, at the head of the chain
\* or further down, succeeds, makes exists() false for it and leaves
\* exists() as it was for every other template.
C13_CollidingTemplates ==
    /\ (pcall.op = "put" /\ pret.ok) =>
          /\ exists(table, pcall.template)
          /\ \A t \in HashTemplates \ {pcall.template} :
                exists(table, t) = exists(ppre.table, t)
    /\ (pcall.op = "delete" /\ exists(ppre.table, pcall.template)) =>
          /\ pret.ok
          /\ ~exists(table, pcall.template)
          /\ \A t \in HashTemplates \ {pcall.template} :
                exists(table, t) = exists(ppre.table, t)
    /\ \A t1 \in stored, t2 \in stored :
          (t1 # t2 /\ polynomial_hash(t1) = polynomial_hash(t2)) =>
              exists(table, t1) /\ exists(table, t2)

\* the middle entry of a chain of three has just been deleted
C13_Witness ==
    /\ pcall.op = "delete" /\ pret.ok
    /\ LET chain == ppre.table[polynomial_hash(pcall.template)]
       IN  /\ Len(chain) = 3
           /\ chain[2].template = pcall.template
    /\ Len(table[polynomial_hash(pcall.template)]) = 2

\* C14: update(old, new) fails and leaves the table as it was when old is
\* absent, or when new is present and differs from old; otherwise it
\* succeeds, old is absent afterwards unless it equals new, new is present
\* and size() is unchanged; update(t, t) with t present keeps the stored set.
C14_PatternUpdate ==
    pcall.op = "update" =>
        LET o == pcall.template
            n == pcall.new_template
        IN  IF \/ ~exists(ppre.table, o)
               \/ (n # o /\ exists(ppre.table, n))
            THEN /\ ~pret.ok
                 /\ table = ppre.table
                 /\ count = ppre.count
            ELSE /\ pret.ok
                 /\ o # n => ~exists(table, o)
                 /\ exists(table, n)
                 /\ get_size(count) = get_size(ppre.count)
                 /\ \A t \in HashTemplates \ {o, n} :
                       exists(table, t) = exists(ppre.table, t)
                 /\ o = n => get_all_patterns(table)
                               = get_all_patterns(ppre.table)

\* update(t, t) on a template stored below the head of its chain
C14_Witness ==
    /\ pcall.op = "update" /\ pret.ok
    /\ pcall.template = pcall.new_template
    /\ LET chain == ppre.table[polynomial_hash(pcall.template)]
       IN  /\ Len(chain) >= 2
           /\ chain[1].template # pcall.template

\* C19: every chain entry stores its template's full hash, the rolling hash
\* with multiplier 31 modulo 1 000 000 007 before the reduction modulo the
\* table size, and lies in the bucket whose index is that value modulo the
\* table size.
C19_EntryStoresFullHash ==
    \A i \in 0..(TableSize - 1) :
        \A k \in 1..Len(table[i]) :
            /\ table[i][k].hash_value = rolling_hash(0, table[i][k].template, 1)
            /\ i = table[i][k].hash_value % TableSize

----------------------------------------------------------------------------
(* Validation order, malformed roots and weakness classes                  *)
\* the indexes of the templates of mpatterns that generate the word asked for
Matching ==
    {i \in 1..Len(mpatterns) :
        apply_root_to_pattern(mroot, mpatterns[i]) = mcall.word}

\* C15: with a 3-character root validateWord goes through the patterns in
\* the given order and returns (true, p) with p the first element that
\* generates the word; it returns (false, none) exactly when no element
\* generates the word.
C15_FirstMatch ==
    (mcall.op \in {"validate_word", "validate_derivative"} /\ Len(mroot) = 3)
    => IF Matching = {}
       THEN ~mret.is_valid /\ mret.template_used = None
       ELSE /\ mret.is_valid
            /\ LET first == CHOOSE i \in Matching : \A j \in Matching : i <= j
               IN  mret.template_used = mpatterns[first]

\* two different templates generate the word and the first one in the
\* sequence stands after a template that does not
C15_Witness ==
    /\ mcall.op \in {"validate_word", "validate_derivative"}
    /\ Len(mroot) = 3
    /\ 1 \notin Matching
    /\ \E i \in Matching, j \in Matching : mpatterns[i] # mpatterns[j]
    /\ mret.is_valid

\* C16: for a root whose length is not 3, applyRootToPattern returns the
\* empty string for every pattern, validateWord returns (false, none) for
\* every word, the empty word included, and generateDerivatives returns an
\* empty sequence.
C16_MalformedRoot ==
    Len(mroot) # 3 =>
        /\ mcall.op = "apply_root_to_pattern" => mret = EmptyStr
        /\ mcall.op = "validate_word" =>
              ~mret.is_valid /\ mret.template_used = None
        /\ mcall.op = "generate_derivatives" => mret = <<>> /\ mderivs = <<>>

\* the empty word is validated against a malformed root and a pattern list
\* whose first template yields the empty string for it
C16_Witness ==
    /\ mcall.op = "validate_word"
    /\ Len(mroot) # 3
    /\ mcall.word = EmptyStr
    /\ Len(mpatterns) >= 1
    /\ apply_root_to_pattern(mroot, mpatterns[1]) = EmptyStr
    /\ ~mret.is_valid

\* C20: classifyWeakness is defined on every string; on a 3-character root
\* it returns assimilated@0 when position 0 is waw or ya, else hollow@1
\* when position 1 is, else defective@2 when position 2 is, else
\* doubled@(1,2) when positions 1 and 2 hold the same character, else
\* sound; on any other length it returns sound with no position.
C20_WeaknessPrecedence ==
    mcall.op = "is_weak_root" =>
        /\ Len(mret) = 2
        /\ IF Len(mroot) # 3
           THEN mret[1] = "sound" /\ mret[2] = None
           ELSE IF mroot[1] \in {WAW, YA}
           THEN mret[1] = "assimilated" /\ mret[2] = 0
           ELSE IF mroot[2] \in {WAW, YA}
           THEN mret[1] = "hollow" /\ mret[2] = 1
           ELSE IF mroot[3] \in {WAW, YA}
           THEN mret[1] = "defective" /\ mret[2] = 2
           ELSE IF mroot[2] = mroot[3]
           THEN mret[1] = "doubled" /\ mret[2] = <<1, 2>>
           ELSE mret[1] = "sound" /\ mret[2] = None

\* a root with weak letters at positions 0 and 1 is classed by position 0
C20_Witness ==
    /\ mcall.op = "is_weak_root"
    /\ Len(mroot) = 3
    /\ mroot[1] \in {WAW, YA} /\ mroot[2] \in {WAW, YA}
    /\ mret[1] = "assimilated"

----------------------------------------------------------------------------
(* Substitution and the steps of the normalisation                         *)
Position1 == {FA, DIGIT1, LATIN_F}
Position2 == {AYN, DIGIT2, LATIN_A}
Position3 == {LAM, DIGIT3, LATIN_L}

\* C21: for a 3-character root the substitution step gives a word with as
\* many characters as the pattern; position i holds root[0], root[1] or
\* root[2] when pattern[i] is a marker of position 1, 2 or 3 and pattern[i]
\* itself otherwise; a root character equal to a marker is emitted as is.
C21_Substitution ==
    (mcall.op = "derive" /\ Len(mroot) = 3) =>
        LET pattern == mcall.template
            word == mret.substituted
        IN  /\ Len(word) = Len(pattern)
            /\ \A i \in 1..Len(pattern) :
                  word[i] = IF pattern[i] \in Position1 THEN mroot[1]
                            ELSE IF pattern[i] \in Position2 THEN mroot[2]
                            ELSE IF pattern[i] \in Position3 THEN mroot[3]
                            ELSE pattern[i]

\* a marker let a root character through that is itself a marker of
\* another position
C21_Witness ==
    /\ mcall.op = "derive" /\ Len(mroot) = 3
    /\ \E i \in 1..Len(mcall.template) :
          /\ mcall.template[i] \in Position1
          /\ mret.substituted[i] = mroot[1]
          /\ mroot[1] \in Position3

ShortVowels == {FATHA, KASRA, DAMMA}

\* the long vowel the mapping gives for a short vowel before a weak radical
LongVowel(vowel, weak) ==
    IF weak = WAW
    THEN (IF vowel = FATHA THEN ALIF ELSE IF vowel = KASRA THEN YA ELSE WAW)
    ELSE (IF vowel = FATHA THEN ALIF ELSE IF vowel = DAMMA THEN WAW ELSE YA)

\* C22: for a hollow root, normalize rewrites every occurrence in the
\* substituted word of a short vowel followed by the root's weak radical:
\* fatha+waw to fatha+alif, kasra+waw to kasra+ya, damma+waw unchanged,
\* fatha+ya to fatha+alif, damma+ya to damma+waw, kasra+ya unchanged.
C22_HollowMapping ==
    (/\ mcall.op = "derive" /\ Len(mroot) = 3
     /\ mroot[2] \in {WAW, YA} /\ mroot[1] \notin {WAW, YA}) =>
        LET word == mret.substituted
        IN  /\ Len(mret.weak) = Len(word)
            /\ \A i \in 1..Len(word) :
                  mret.weak[i] =
                      IF i > 1 /\ word[i] = mroot[2]
                               /\ word[i - 1] \in ShortVowels
                      THEN LongVowel(word[i - 1], mroot[2])
                      ELSE word[i]

Form8Step ==
    LET c1 == mroot[1]
        word == mret.weak
    IN  /\ Len(mret.form8) = Len(word)
        /\ \A i \in 1..Len(word) :
              mret.form8[i] =
                  IF i > 1 /\ word[i - 1] = c1 /\ word[i] = TA
                  THEN (IF c1 \in {SAD, DAD, TAH, ZAH} THEN TAH
                        ELSE IF c1 \in {DAL, DHAL, ZAY} THEN SHADDA
                        ELSE IF c1 = THA THEN SHADDA
                        ELSE TA)
                  ELSE word[i]

\* the word holds c followed by ta somewhere
HasBeforeTa(word, c) ==
    \E i \in 1..(Len(word) - 1) : word[i] = c /\ word[i + 1] = TA

\* C24: the Form-VIII step turns every c1+ta into c1+emphatic ta for an
\* emphatic c1, into c1+gemination mark for a dental c1 and for tha, and
\* leaves the word unchanged for any other c1; hence for c1 in any of the
\* three classes the normalized word holds no c1 immediately followed by ta.
C24_Form8NoTaLeft ==
    (mcall.op = "derive" /\ Len(mroot) = 3) =>
        /\ Form8Step
        /\ mroot[1] \in {SAD, DAD, TAH, ZAH, DAL, DHAL, ZAY, THA} =>
              ~HasBeforeTa(mret.result, mroot[1])

\* C24 as amended: the same step; the normalized word holds no c1+ta for a
\* dental c1, for tha and for an emphatic c1 other than the emphatic ta
\* itself; for c1 the emphatic ta, c1+ta stands after the step only where
\* the word held c1+ta+ta.
C24_Form8Amended ==
    (mcall.op = "derive" /\ Len(mroot) = 3) =>
        /\ Form8Step
        /\ mroot[1] \in {SAD, DAD, ZAH, DAL, DHAL, ZAY, THA} =>
              ~HasBeforeTa(mret.result, mroot[1])
        /\ mroot[1] = TAH =>
              \A i \in 1..(Len(mret.form8) - 1) :
                  (mret.form8[i] = TAH /\ mret.form8[i + 1] = TA) =>
                      /\ i > 1
                      /\ mret.weak[i - 1] = TAH
                      /\ mret.weak[i] = TA
                      /\ mret.weak[i + 1] = TA

\* a dental first consonant stood before ta and the step wrote the
\* gemination mark
C24_Witness ==
    /\ mcall.op = "derive" /\ Len(mroot) = 3
    /\ mroot[1] \in {DAL, DHAL, ZAY}
    /\ HasBeforeTa(mret.weak, mroot[1])
    /\ mret.form8 # mret.weak
    /\ ~HasBeforeTa(mret.result, mroot[1])

\* the word holds two gemination marks side by side
HasDoubledMark(word) ==
    \E i \in 1..(Len(word) - 1) : word[i] = SHADDA /\ word[i + 1] = SHADDA

\* C25: for a root of 3 consonants and a pattern without two adjacent
\* gemination marks, the word applyRootToPattern returns has no two
\* adjacent gemination marks: a doubled mark made by the Form-VIII or
\* Form-VII step is collapsed into one.
C25_NoDoubledMark ==
    (/\ mcall.op = "derive" /\ Len(mroot) = 3
     /\ ~HasDoubledMark(mcall.template)) =>
        ~HasDoubledMark(mret.result)

\* the Form-VIII step made a doubled mark that the pattern did not have
C25_Witness ==
    /\ mcall.op = "derive" /\ Len(mroot) = 3
    /\ ~HasDoubledMark(mcall.template)
    /\ ~HasDoubledMark(mret.weak)
    /\ HasDoubledMark(mret.form7)
    /\ ~HasDoubledMark(mret.result)

----------------------------------------------------------------------------
(* Both indices behind the request handlers                                *)
\* every entry of the subtree is the word its template gives for the key
\* of its node or, with renamed, for a key the node has had
RECURSIVE EntriesDerivable(_, _)
EntriesDerivable(node, renamed) ==
    \/ node = Nil
    \/ /\ \A w \in DOMAIN node.derived_words :
             \E r \in (IF renamed THEN origin[node.root] ELSE {node.root}) :
                 apply_root_to_pattern(r, node.derived_words[w].template) = w
       /\ EntriesDerivable(node.left, renamed)
       /\ EntriesDerivable(node.right, renamed)

\* C26: in every state reached from empty indices through the requests,
\* each derived-word entry word -> {template, frequency} stored under a
\* root r satisfies applyRootToPattern(r, template) = word.
C26_EntriesDerivable == EntriesDerivable(tree, FALSE)

\* C26 as amended: each entry stored under r is the word its template gives
\* for r itself or for a root that r was renamed from by update root.
C26_EntriesAmended == EntriesDerivable(tree, TRUE)

\* a renamed root holds a word recorded before the renaming and one
\* recorded after it
C26_Witness ==
    \E r \in DOMAIN origin :
        LET words == get_node(tree, r).derived_words
        IN  /\ origin[r] # {r}
            /\ \E w \in DOMAIN words :
                  apply_root_to_pattern(r, words[w].template) # w
            /\ \E w \in DOMAIN words :
                  apply_root_to_pattern(r, words[w].template) = w

\* the stored templates as a set, and those that give the word asked for
StoredTemplates == {t \in SysTemplates : exists(table, t)}
Generating == {t \in StoredTemplates :
                  apply_root_to_pattern(call.root, t) = call.word}

\* C27: the validate request depends on the stored templates as a set
\* only, whatever order of put, delete and update produced it: the answer
\* is valid when a stored template gives the word for the stored root, and
\* template_used is then the smallest such template in string order.
C27_ValidateBySet ==
    call.op = "validate_word" =>
        IF Len(call.root) = 3 /\ search(tree, call.root) /\ Generating # {}
        THEN /\ mret.is_valid
             /\ mret.template_used \in Generating
             /\ \A t \in Generating :
                   t = mret.template_used \/ StrLess(mret.template_used, t)
        ELSE ~mret.is_valid /\ mret.template_used = None

\* two stored templates give the word and, in the order of the chains, the
\* one reported stands behind the other
C27_Witness ==
    /\ call.op = "validate_word"
    /\ mret.is_valid
    /\ LET order == ChainsFrom(table, 0)
       IN  \E i \in 1..Len(order), j \in 1..Len(order) :
              /\ i < j
              /\ order[i] \in Generating
              /\ order[j] = mret.template_used

====
